---- MODULE Spec2Model ----
(***************************************************************************)
(* State-machine model of the H3LIS200DL accelerometer driver              *)
(* (src/h3lis200dl.py).                                                    *)
(*                                                                         *)
(* The device is a small register file reached over I2C.  The driver       *)
(* object holds one attribute of its own, _memory_full_scale_selection.    *)
(* Every property access of the driver is one action; the bus              *)
(* transactions it issues are recorded in `bus`, its outcome in `res`      *)
(* and its return value in `ret`.                                          *)
(*                                                                         *)
(* Numbers.  The acceleration property returns Python floats               *)
(* n * scale / 128 with |n| < 256 and scale in {100, 200}; such a quotient *)
(* is exact in binary floating point, so a returned value is modelled by   *)
(* its exact numerator over 128 (Div128 is the denominator).               *)
(*                                                                         *)
(* Bus.  A transaction of the transport either succeeds or raises          *)
(* OSError; a transaction that raised has not changed the device.          *)
(***************************************************************************)
EXTENDS Integers, Sequences, FiniteSets, TLC

(* ------------------------------------------------------------------ *)
(* Bounds of the model                                                 *)
(* ------------------------------------------------------------------ *)

\* the operation_mode setter is called with 0..MaxModeArg
MaxModeArg == 7
\* the full-scale and axis setters are called with 0..MaxFlagArg
MaxFlagArg == 2

(* ------------------------------------------------------------------ *)
(* Module constants, src/h3lis200dl.py lines 32-72                      *)
(* ------------------------------------------------------------------ *)

_REG_WHOAMI == 15      \* 0x0F
_CTRL_REG1 == 32       \* 0x20
_CTRL_REG4 == 35       \* 0x23
_ACC_X == 41           \* 0x29
_ACC_Y == 43           \* 0x2B
_ACC_Z == 45           \* 0x2D

\* the identity byte __init__ expects, 0x32
DEVICE_ID == 50

POWER_DOWN == 0
NORMAL_MODE == 1
LOW_POWER_ODR0_5 == 2
LOW_POWER_ODR1 == 3
LOW_POWER_ODR2 == 4
LOW_POWER_ODR5 == 5
LOW_POWER_ODR10 == 6
operation_mode_values ==
    {POWER_DOWN, NORMAL_MODE, LOW_POWER_ODR0_5, LOW_POWER_ODR1,
     LOW_POWER_ODR2, LOW_POWER_ODR5, LOW_POWER_ODR10}

X_DISABLED == 0
X_ENABLED == 1
axis_enabled_values == {X_DISABLED, X_ENABLED}

SCALE_100G == 0
SCALE_200G == 1
full_scale_selection_values == {SCALE_100G, SCALE_200G}
\* the dict full_scale, as a function on its keys
full_scale == (SCALE_100G :> 100) @@ (SCALE_200G :> 200)

\* the divisor of the acceleration property
Div128 == 128

\* the tuples `values` of the three kinds of getter (1-based here)
operation_mode_names ==
    <<"POWER_DOWN", "NORMAL_MODE", "LOW_POWER_ODR0_5", "LOW_POWER_ODR1",
      "LOW_POWER_ODR2", "LOW_POWER_ODR5", "LOW_POWER_ODR10">>
full_scale_selection_names == <<"SCALE_100G", "SCALE_200G">>
x_enabled_names == <<"X_DISABLED", "X_ENABLED">>
y_enabled_names == <<"Y_DISABLED", "Y_ENABLED">>
z_enabled_names == <<"Z_DISABLED", "Z_ENABLED">>

(* ------------------------------------------------------------------ *)
(* Bit arithmetic on naturals                                          *)
(* ------------------------------------------------------------------ *)

\* 1 << n
Pow2(n) == 2 ^ n

RECURSIVE BitAnd(_, _)
BitAnd(a, b) ==
    IF a = 0 \/ b = 0 THEN 0
    ELSE (a % 2) * (b % 2) + 2 * BitAnd(a \div 2, b \div 2)

RECURSIVE BitOr(_, _)
BitOr(a, b) ==
    IF a = 0 THEN b
    ELSE IF b = 0 THEN a
    ELSE (IF a % 2 = 1 \/ b % 2 = 1 THEN 1 ELSE 0)
         + 2 * BitOr(a \div 2, b \div 2)

\* ~mask within one register byte
ByteNot(mask) == 255 - mask

(* ------------------------------------------------------------------ *)
(* Register descriptors, class attributes at lines 106-119             *)
(* ------------------------------------------------------------------ *)

\* RWBits(3, _CTRL_REG1, 5)
_operation_mode ==
    [num_bits |-> 3, register |-> _CTRL_REG1, lowest_bit |-> 5]
\* the full-scale bit declared in CTRL_REG1, where the mode field lives
_full_scale_selection_in_reg1 ==
    [num_bits |-> 1, register |-> _CTRL_REG1, lowest_bit |-> 5]
\* RWBits(1, _CTRL_REG4, 4)
_full_scale_selection ==
    [num_bits |-> 1, register |-> _CTRL_REG4, lowest_bit |-> 4]
\* RWBit(register, bit)
_z_enabled == [register |-> _CTRL_REG1, bit |-> 2]
_y_enabled == [register |-> _CTRL_REG1, bit |-> 1]
_x_enabled == [register |-> _CTRL_REG1, bit |-> 0]

\* bit_mask of a descriptor: ((1 << num_bits) - 1) << lowest_bit
bit_mask(d) == (Pow2(d.num_bits) - 1) * Pow2(d.lowest_bit)

\* descriptor __get__ on the register byte that was read
field_get(d, byte) == BitAnd(byte, bit_mask(d)) \div Pow2(d.lowest_bit)

\* a write that stores the shifted value without the bits it read
field_set_clobber(d, byte, value) == (value * Pow2(d.lowest_bit)) % 256
\* descriptor __set__: the byte written back for the byte that was read
field_set(d, byte, value) ==
    BitAnd(BitOr(BitAnd(byte, ByteNot(bit_mask(d))),
                 value * Pow2(d.lowest_bit)), 255)

\* RWBit __get__: bool(byte & mask), used as an index 0 or 1
bit_get(d, byte) == IF BitAnd(byte, Pow2(d.bit)) # 0 THEN 1 ELSE 0

\* RWBit __set__: any true value sets the bit, a false one clears it
bit_set(d, byte, value) ==
    IF value # 0 THEN BitOr(byte, Pow2(d.bit))
    ELSE BitAnd(byte, ByteNot(Pow2(d.bit)))

(* ------------------------------------------------------------------ *)
(* _twos_comp, lines 220-224                                           *)
(* ------------------------------------------------------------------ *)

\* the sign test on bit `bits` instead of bit `bits - 1`
_twos_comp_sign_off_by_one(val, bits) ==
    IF BitAnd(val, Pow2(bits)) # 0 THEN val - Pow2(bits) ELSE val
\* _twos_comp(val, bits)
_twos_comp(val, bits) ==
    IF BitAnd(val, Pow2(bits - 1)) # 0 THEN val - Pow2(bits) ELSE val

(* ------------------------------------------------------------------ *)
(* State                                                               *)
(* ------------------------------------------------------------------ *)

VARIABLES
    regs,          \* device: register address -> byte (identity, CTRL_REG1, CTRL_REG4)
    phase,         \* "new": no driver yet, "ready": constructed, "failed": __init__ raised
    mem,           \* _memory_full_scale_selection: <<>> while unset, else <<v>>
    op,            \* the last operation
    arg,           \* its argument: <<>> or <<v>>
    res,           \* its outcome: "ok" or the exception raised
    ret,           \* its return value (a sequence, <<>> when none)
    raw,           \* bytes the last acceleration read got: address -> byte, <<>> when none
    bus,           \* the bus transactions of the last operation, in order
    lastModeSet,   \* argument of the last operation_mode setter that returned, <<>> if none
    lastFsSet      \* argument of the last full_scale_selection setter that returned

vars == <<regs, phase, mem, op, arg, res, ret, raw, bus, lastModeSet, lastFsSet>>

CtrlAddrs == {_REG_WHOAMI, _CTRL_REG1, _CTRL_REG4}
AccAddrs == {_ACC_X, _ACC_Y, _ACC_Z}

\* one bus transaction: kind, register address, whether it succeeded
Rd(addr, good) == <<"read", addr, good>>
Wr(addr, good) == <<"write", addr, good>>

(* ------------------------------------------------------------------ *)
(* Bus access of the descriptors                                       *)
(* ------------------------------------------------------------------ *)

\* where a read-modify-write can raise
RmwFailures == {"none", "read", "write"}

\* read-modify-write of one register: the device and the bus trace after it
Rmw(addr, newbyte, fail) ==
    IF fail = "read"
    THEN [regs |-> regs, bus |-> <<Rd(addr, FALSE)>>, good |-> FALSE]
    ELSE IF fail = "write"
    THEN [regs |-> regs, bus |-> <<Rd(addr, TRUE), Wr(addr, FALSE)>>,
          good |-> FALSE]
    ELSE [regs |-> [regs EXCEPT ![addr] = newbyte],
          bus |-> <<Rd(addr, TRUE), Wr(addr, TRUE)>>, good |-> TRUE]

\* RWBits.__set__ without the read: the register is overwritten
RWBits_set_blind(d, value, fail) ==
    Rmw(d.register, field_set_clobber(d, regs[d.register], value), fail)
\* RWBits.__set__(obj, value)
RWBits_set(d, value, fail) ==
    Rmw(d.register, field_set(d, regs[d.register], value), fail)

\* RWBit.__set__(obj, value)
RWBit_set(d, value, fail) ==
    Rmw(d.register, bit_set(d, regs[d.register], value), fail)

\* values[index] of a getter: the name, or IndexError past the tuple's end
Lookup(names, index) ==
    IF index + 1 \in DOMAIN names
    THEN [res |-> "ok", ret |-> <<names[index + 1]>>]
    ELSE [res |-> "IndexError", ret |-> <<>>]

(* ------------------------------------------------------------------ *)
(* __init__, lines 121-128                                             *)
(* ------------------------------------------------------------------ *)

\* how far __init__ gets on the bus before a transaction raises:
\* 0 identity read, 1 mode read, 2 mode write, 3 mode read-back, 4 no failure
InitFailures == 0..4

\* __init__ writing the mode before it has checked the identity
Construct_write_first ==
    /\ phase \in {"new", "failed"}
    /\ op' = "__init__" /\ arg' = <<>> /\ raw' = <<>>
    /\ UNCHANGED <<lastModeSet, lastFsSet>>
    /\ LET w == RWBits_set(_operation_mode, NORMAL_MODE, "none")
           id == regs[_REG_WHOAMI]
       IN /\ regs' = w.regs
          /\ ret' = <<id>>
          /\ bus' = w.bus \o <<Rd(_REG_WHOAMI, TRUE)>>
          /\ IF id # DEVICE_ID
             THEN phase' = "failed" /\ res' = "RuntimeError" /\ mem' = <<>>
             ELSE /\ phase' = "ready" /\ res' = "ok"
                  /\ mem' = <<field_get(_operation_mode,
                                  w.regs[_operation_mode.register])>>
\* __init__ with the mode written at line 127 as a parameter
ConstructWith(mode) ==
    /\ phase \in {"new", "failed"}
    /\ op' = "__init__" /\ arg' = <<>> /\ raw' = <<>>
    /\ UNCHANGED <<lastModeSet, lastFsSet>>
    /\ \E fail \in InitFailures :
          LET id == regs[_REG_WHOAMI]
              w == RWBits_set(_operation_mode, mode,
                              IF fail = 1 THEN "read"
                              ELSE IF fail = 2 THEN "write" ELSE "none")
              idRead == <<Rd(_REG_WHOAMI, fail # 0)>>
          IN IF fail = 0
             THEN \* line 124: the identity read raises
                  /\ phase' = "failed" /\ res' = "OSError" /\ ret' = <<>>
                  /\ bus' = idRead /\ mem' = <<>> /\ regs' = regs
             ELSE IF id # DEVICE_ID
             THEN \* line 125
                  /\ phase' = "failed" /\ res' = "RuntimeError"
                  /\ ret' = <<id>>
                  /\ bus' = idRead /\ mem' = <<>> /\ regs' = regs
             ELSE IF ~w.good
             THEN \* line 127 raises
                  /\ phase' = "failed" /\ res' = "OSError" /\ ret' = <<id>>
                  /\ bus' = idRead \o w.bus /\ mem' = <<>>
                  /\ regs' = w.regs
             ELSE IF fail = 3
             THEN \* line 128: the read-back raises, the mode is written
                  /\ phase' = "failed" /\ res' = "OSError" /\ ret' = <<id>>
                  /\ bus' = idRead \o w.bus \o <<Rd(_operation_mode.register, FALSE)>>
                  /\ mem' = <<>> /\ regs' = w.regs
             ELSE \* line 128: the cache is the operation-mode field read back
                  /\ phase' = "ready" /\ res' = "ok" /\ ret' = <<id>>
                  /\ bus' = idRead \o w.bus \o <<Rd(_operation_mode.register, TRUE)>>
                  /\ mem' = <<field_get(_operation_mode, w.regs[_operation_mode.register])>>
                  /\ regs' = w.regs

\* __init__ starting the sensor in a low-power mode
Construct_low_power == ConstructWith(LOW_POWER_ODR0_5)
\* __init__, lines 121-128
Construct == ConstructWith(NORMAL_MODE)

(* ------------------------------------------------------------------ *)
(* Setters                                                             *)
(* ------------------------------------------------------------------ *)

ModeArgs == 0..MaxModeArg
FlagArgs == 0..MaxFlagArg

\* what every setter leaves of the last operation's record
SetterFrame(name, value) ==
    /\ phase = "ready"
    /\ op' = name /\ arg' = <<value>> /\ ret' = <<>> /\ raw' = <<>>
    /\ phase' = phase

\* the raise ValueError of a setter: nothing was sent
Rejected ==
    /\ res' = "ValueError" /\ bus' = <<>>
    /\ UNCHANGED <<regs, mem, lastModeSet, lastFsSet>>

\* operation_mode setter without the membership test
operation_mode_set_unchecked(value) ==
    /\ SetterFrame("set_operation_mode", value)
    /\ \E fail \in RmwFailures :
          LET w == RWBits_set(_operation_mode, value, fail)
          IN /\ regs' = w.regs /\ bus' = w.bus
             /\ res' = IF w.good THEN "ok" ELSE "OSError"
             /\ lastModeSet' = IF w.good THEN <<value>> ELSE lastModeSet
             /\ UNCHANGED <<mem, lastFsSet>>
\* operation_mode setter, lines 164-168
operation_mode_set(value) ==
    /\ SetterFrame("set_operation_mode", value)
    /\ IF value \notin operation_mode_values
       THEN Rejected
       ELSE \E fail \in RmwFailures :
          LET w == RWBits_set(_operation_mode, value, fail)
          IN /\ regs' = w.regs /\ bus' = w.bus
             /\ res' = IF w.good THEN "ok" ELSE "OSError"
             /\ lastModeSet' = IF w.good THEN <<value>> ELSE lastModeSet
             /\ UNCHANGED <<mem, lastFsSet>>

\* full_scale_selection setter that forgets line 218
full_scale_selection_set_no_cache(value) ==
    /\ SetterFrame("set_full_scale_selection", value)
    /\ IF value \notin full_scale_selection_values
       THEN Rejected
       ELSE \E fail \in RmwFailures :
          LET w == RWBits_set(_full_scale_selection, value, fail)
          IN /\ regs' = w.regs /\ bus' = w.bus
             /\ res' = IF w.good THEN "ok" ELSE "OSError"
             /\ mem' = mem
             /\ lastFsSet' = IF w.good THEN <<value>> ELSE lastFsSet
             /\ UNCHANGED lastModeSet
\* full_scale_selection setter with lines 217 and 218 exchanged
full_scale_selection_set_cache_first(value) ==
    /\ SetterFrame("set_full_scale_selection", value)
    /\ IF value \notin full_scale_selection_values
       THEN Rejected
       ELSE \E fail \in RmwFailures :
          LET w == RWBits_set(_full_scale_selection, value, fail)
          IN /\ regs' = w.regs /\ bus' = w.bus
             /\ res' = IF w.good THEN "ok" ELSE "OSError"
             /\ mem' = <<value>>
             /\ lastFsSet' = IF w.good THEN <<value>> ELSE lastFsSet
             /\ UNCHANGED lastModeSet
\* full_scale_selection setter, lines 213-218
full_scale_selection_set(value) ==
    /\ SetterFrame("set_full_scale_selection", value)
    /\ IF value \notin full_scale_selection_values
       THEN Rejected
       ELSE \E fail \in RmwFailures :
          LET w == RWBits_set(_full_scale_selection, value, fail)
          IN /\ regs' = w.regs /\ bus' = w.bus
             /\ res' = IF w.good THEN "ok" ELSE "OSError"
             \* line 218 runs only when line 217 returned
             /\ mem' = IF w.good THEN <<value>> ELSE mem
             /\ lastFsSet' = IF w.good THEN <<value>> ELSE lastFsSet
             /\ UNCHANGED lastModeSet

\* the body shared by the three axis setters
axis_set(name, d, value) ==
    /\ SetterFrame(name, value)
    /\ IF value \notin axis_enabled_values
       THEN Rejected
       ELSE \E fail \in RmwFailures :
          LET w == RWBit_set(d, value, fail)
          IN /\ regs' = w.regs /\ bus' = w.bus
             /\ res' = IF w.good THEN "ok" ELSE "OSError"
             /\ UNCHANGED <<mem, lastModeSet, lastFsSet>>

\* x_enabled setter, lines 247-251
x_enabled_set(value) == axis_set("set_x_enabled", _x_enabled, value)
\* y_enabled setter, lines 274-278
y_enabled_set(value) == axis_set("set_y_enabled", _y_enabled, value)
\* z_enabled setter, lines 301-305
z_enabled_set(value) == axis_set("set_z_enabled", _z_enabled, value)

(* ------------------------------------------------------------------ *)
(* Getters                                                             *)
(* ------------------------------------------------------------------ *)

\* a getter: one register read, then values[field]
Getter(name, addr, names, index) ==
    /\ phase = "ready"
    /\ op' = name /\ arg' = <<>> /\ raw' = <<>>
    /\ UNCHANGED <<regs, phase, mem, lastModeSet, lastFsSet>>
    /\ \E good \in BOOLEAN :
          /\ bus' = <<Rd(addr, good)>>
          /\ IF good
             THEN /\ res' = Lookup(names, index).res
                  /\ ret' = Lookup(names, index).ret
             ELSE res' = "OSError" /\ ret' = <<>>

\* operation_mode getter, lines 130-162
operation_mode_get ==
    Getter("get_operation_mode", _operation_mode.register,
           operation_mode_names,
           field_get(_operation_mode, regs[_operation_mode.register]))

\* full_scale_selection getter, lines 194-211
full_scale_selection_get ==
    Getter("get_full_scale_selection", _full_scale_selection.register,
           full_scale_selection_names,
           field_get(_full_scale_selection,
                     regs[_full_scale_selection.register]))

\* x_enabled getter, lines 226-245
x_enabled_get ==
    Getter("get_x_enabled", _x_enabled.register, x_enabled_names,
           bit_get(_x_enabled, regs[_x_enabled.register]))
\* y_enabled getter, lines 253-272
y_enabled_get ==
    Getter("get_y_enabled", _y_enabled.register, y_enabled_names,
           bit_get(_y_enabled, regs[_y_enabled.register]))
\* z_enabled getter, lines 280-299
z_enabled_get ==
    Getter("get_z_enabled", _z_enabled.register, z_enabled_names,
           bit_get(_z_enabled, regs[_z_enabled.register]))

(* ------------------------------------------------------------------ *)
(* acceleration, lines 170-192                                         *)
(* ------------------------------------------------------------------ *)

\* what the three data registers hold at the time of a read
SampleOf(x, y, z) == (_ACC_X :> x) @@ (_ACC_Y :> y) @@ (_ACC_Z :> z)

\* one axis: _twos_comp(byte, 7) * full_scale[cache], the numerator over 128
axis_value(byte, cache) == _twos_comp(byte, 7) * full_scale[cache]

\* the reads of the first n axes, the last one failing when n < 3
AccReads(n) ==
    LET order == <<_ACC_X, _ACC_Y, _ACC_Z>>
    IN [i \in 1..(IF n < 3 THEN n + 1 ELSE 3) |-> Rd(order[i], i <= n)]

\* the acceleration property; n reads succeed, and when all do they get s
acceleration(samples) ==
    /\ phase = "ready"
    /\ op' = "acceleration" /\ arg' = <<>>
    /\ UNCHANGED <<regs, phase, mem, lastModeSet, lastFsSet>>
    /\ \E n \in 0..3 :
          IF n = 0
          THEN /\ res' = "OSError" /\ ret' = <<>> /\ raw' = <<>>
               /\ bus' = AccReads(0)
          ELSE IF mem[1] \notin DOMAIN full_scale
          THEN \* line 179: the lookup raises once x has been read
               /\ res' = "KeyError" /\ ret' = <<>> /\ raw' = <<>>
               /\ bus' = <<Rd(_ACC_X, TRUE)>>
          ELSE IF n < 3
          THEN /\ res' = "OSError" /\ ret' = <<>> /\ raw' = <<>>
               /\ bus' = AccReads(n)
          ELSE \E s \in samples :
               /\ res' = "ok" /\ raw' = s /\ bus' = AccReads(3)
               /\ ret' = <<axis_value(s[_ACC_X], mem[1]),
                           axis_value(s[_ACC_Y], mem[1]),
                           axis_value(s[_ACC_Z], mem[1])>>

(* ------------------------------------------------------------------ *)
(* Specifications                                                      *)
(* ------------------------------------------------------------------ *)

\* register contents found at power-up or left by an earlier session
InitWhoAmI == {DEVICE_ID, DEVICE_ID + 1, 0}
InitCtrl1 == {7, 248}
InitCtrl4 == {0, 255}

\* samples of the end-to-end scenarios and of the range's corners
Samples ==
    {SampleOf(10, 118, 0), SampleOf(0, 64, 63), SampleOf(127, 128, 255),
     SampleOf(191, 192, 1)}

\* every byte on every axis, the three axes always different
AllSamples ==
    {SampleOf(r, (r + 108) % 256, (r + 246) % 256) : r \in 0..255}

InitWith(ids, c1s, c4s) ==
    /\ regs \in {f \in [CtrlAddrs -> ids \cup c1s \cup c4s] :
                    /\ f[_REG_WHOAMI] \in ids
                    /\ f[_CTRL_REG1] \in c1s
                    /\ f[_CTRL_REG4] \in c4s}
    /\ phase = "new"
    /\ mem = <<>>
    /\ op = "none" /\ arg = <<>> /\ res = "none" /\ ret = <<>>
    /\ raw = <<>> /\ bus = <<>>
    /\ lastModeSet = <<>> /\ lastFsSet = <<>>

Step(samples) ==
    \/ Construct
    \/ \E v \in ModeArgs : operation_mode_set(v)
    \/ \E v \in FlagArgs : full_scale_selection_set(v)
    \/ \E v \in FlagArgs : x_enabled_set(v)
    \/ \E v \in FlagArgs : y_enabled_set(v)
    \/ \E v \in FlagArgs : z_enabled_set(v)
    \/ operation_mode_get
    \/ full_scale_selection_get
    \/ x_enabled_get
    \/ y_enabled_get
    \/ z_enabled_get
    \/ acceleration(samples)

Init == InitWith(InitWhoAmI, InitCtrl1, InitCtrl4)
Next == Step(Samples)
Spec == Init /\ [][Next]_vars

\* the decode on every byte, from the power-up register contents
InitDecode == InitWith({DEVICE_ID}, {7}, {0})
NextDecode ==
    \/ Construct
    \/ \E v \in FlagArgs : full_scale_selection_set(v)
    \/ acceleration(AllSamples)
SpecDecode == InitDecode /\ [][NextDecode]_vars

(* ------------------------------------------------------------------ *)
(* Vocabulary of the properties                                        *)
(* ------------------------------------------------------------------ *)

\* bit i of a byte, by arithmetic
Bit(byte, i) == (byte \div (2 ^ i)) % 2

\* the decode the specification describes: subtract 128 when bit 6 is set
Decoded(byte) == IF Bit(byte, 6) = 1 THEN byte - 128 ELSE byte

\* the scale factor of a full-scale code: 100 for 0, 200 for 1
Factor(s) == IF s = 0 THEN 100 ELSE 200

SetterOps ==
    {"set_operation_mode", "set_full_scale_selection", "set_x_enabled",
     "set_y_enabled", "set_z_enabled"}

\* the legal arguments of a setter
Legal(name) == IF name = "set_operation_mode" THEN 0..6 ELSE {0, 1}

\* the acceleration a read that saw `sample` reports at full-scale code s
Expected(sample, s) ==
    <<Decoded(sample[_ACC_X]) * Factor(s), Decoded(sample[_ACC_Y]) * Factor(s),
      Decoded(sample[_ACC_Z]) * Factor(s)>>

\* the last operation was an acceleration read that returned
AccelReturned == op = "acceleration" /\ res = "ok"

\* a bus write that reached the device is in the trace t
WroteDevice(t) == \E i \in DOMAIN t : t[i][1] = "write" /\ t[i][3]

(* ------------------------------------------------------------------ *)
(* C1                                                                  *)
(* ------------------------------------------------------------------ *)

\* C1: once the driver is constructed, the cached full-scale value equals
\* bit 4 of CTRL_REG4 in every state.  Stated as claimed; the constructor
\* caches the operation-mode field (1) whatever CTRL_REG4 holds.
C1_CacheMirrorsHardware ==
    phase = "ready" => mem = <<Bit(regs[_CTRL_REG4], 4)>>

(* ------------------------------------------------------------------ *)
(* C2                                                                  *)
(* ------------------------------------------------------------------ *)

\* C2: a setter called with a value outside its legal set raises
\* ValueError with no bus transaction at all; the registers and the cache
\* are unchanged, so every getter answers as before.
C2_IllegalRejectedBeforeBus ==
    [][(op' \in SetterOps /\ arg'[1] \notin Legal(op'))
         => /\ res' = "ValueError"
            /\ bus' = <<>>
            /\ regs' = regs
            /\ mem' = mem]_vars

C2_Witness ==
    /\ op = "set_operation_mode" /\ arg = <<7>> /\ res = "ValueError"
    /\ regs[_CTRL_REG1] \div 32 = 5

(* ------------------------------------------------------------------ *)
(* C3                                                                  *)
(* ------------------------------------------------------------------ *)

\* C3: when the identity read returns a byte other than 0x32, __init__
\* raises RuntimeError, no driver exists, and no register was written.
C3_WrongIdentityWritesNothing ==
    [][(/\ op' = "__init__"
        /\ \E i \in DOMAIN bus' : bus'[i] = <<"read", _REG_WHOAMI, TRUE>>
        /\ regs[_REG_WHOAMI] # 50)
         => /\ res' = "RuntimeError"
            /\ phase' = "failed"
            /\ ~WroteDevice(bus')
            /\ regs' = regs]_vars

C3_Witness ==
    /\ op = "__init__" /\ res = "RuntimeError" /\ phase = "failed"
    /\ regs[_REG_WHOAMI] = 51 /\ regs[_CTRL_REG1] = 7

(* ------------------------------------------------------------------ *)
(* C4                                                                  *)
(* ------------------------------------------------------------------ *)

\* the bits of register addr outside the set `field` are as before the step
OtherBitsKept(addr, field) ==
    \A i \in (0..7) \ field : Bit(regs'[addr], i) = Bit(regs[addr], i)

\* C4: an accepted setter changes only its own field: bits 7-5 of
\* CTRL_REG1 for the mode, bit 0, 1, 2 of CTRL_REG1 for X, Y, Z, bit 4 of
\* CTRL_REG4 for the full scale; every other bit of both registers stays,
\* whatever the registers held, also when the value is the one already set.
C4_BitfieldIsolation ==
    [][(op' \in SetterOps /\ res' = "ok")
         => LET reg == IF op' = "set_full_scale_selection"
                       THEN _CTRL_REG4 ELSE _CTRL_REG1
                other == IF op' = "set_full_scale_selection"
                         THEN _CTRL_REG1 ELSE _CTRL_REG4
                low == CASE op' = "set_operation_mode" -> 5
                         [] op' = "set_full_scale_selection" -> 4
                         [] op' = "set_x_enabled" -> 0
                         [] op' = "set_y_enabled" -> 1
                         [] op' = "set_z_enabled" -> 2
                field == IF op' = "set_operation_mode" THEN {5, 6, 7}
                         ELSE {low}
            IN /\ OtherBitsKept(reg, field)
               /\ (regs'[reg] \div (2 ^ low)) % (2 ^ Cardinality(field))
                     = arg'[1]
               /\ regs'[other] = regs[other]
               /\ regs'[_REG_WHOAMI] = regs[_REG_WHOAMI]]_vars

\* X enabled on a register whose Y, Z and data-rate bits are set
C4_Witness ==
    /\ op = "set_x_enabled" /\ arg = <<1>> /\ res = "ok"
    /\ regs[_CTRL_REG1] % 32 = 31
    /\ lastModeSet = <<6>>

(* ------------------------------------------------------------------ *)
(* C5                                                                  *)
(* ------------------------------------------------------------------ *)

\* C5: after full_scale_selection was set to s, and until it is set again,
\* the getter reports s and every acceleration read scales each axis by
\* the factor of s (100 or 200), whatever mode and axis writes came between.
C5_FullScaleRoundTrip ==
    lastFsSet # <<>> =>
        LET s == lastFsSet[1]
        IN /\ s \in {0, 1}
           /\ (op = "get_full_scale_selection" /\ res # "OSError")
                 => /\ res = "ok"
                    /\ ret = <<IF s = 0 THEN "SCALE_100G" ELSE "SCALE_200G">>
           /\ AccelReturned
                 => \A i \in 1..3 :
                      ret[i] = Decoded(raw[<<_ACC_X, _ACC_Y, _ACC_Z>>[i]])
                                 * Factor(s)

\* a read at 100G after a mode write, the cache having started at 1
C5_Witness ==
    /\ lastFsSet = <<0>> /\ lastModeSet = <<3>> /\ AccelReturned
    /\ raw = SampleOf(0, 64, 63)

(* ------------------------------------------------------------------ *)
(* C6                                                                  *)
(* ------------------------------------------------------------------ *)

\* C6: after operation_mode was set to one of the seven legal codes m, the
\* getter reports the m-th name of the mode table, and keeps doing so
\* through full-scale and axis writes and acceleration reads.
C6_OperationModeRoundTrip ==
    lastModeSet # <<>> =>
        LET m == lastModeSet[1]
            table == <<"POWER_DOWN", "NORMAL_MODE", "LOW_POWER_ODR0_5",
                       "LOW_POWER_ODR1", "LOW_POWER_ODR2", "LOW_POWER_ODR5",
                       "LOW_POWER_ODR10">>
        IN /\ m \in 0..6
           /\ regs[_CTRL_REG1] \div 32 = m
           /\ (op = "get_operation_mode" /\ res # "OSError")
                 => res = "ok" /\ ret = <<table[m + 1]>>

C6_Witness ==
    /\ lastModeSet = <<6>> /\ lastFsSet = <<0>>
    /\ op = "get_operation_mode" /\ res = "ok"
    /\ regs[_CTRL_REG1] % 8 = 0

(* ------------------------------------------------------------------ *)
(* C7                                                                  *)
(* ------------------------------------------------------------------ *)

\* C7: for every raw byte and either scale the decoded integer is in
\* -128..127, so each reported axis value v has -scale <= v < scale.
\* Stated as claimed, on the numerators over 128; _twos_comp(val, 7)
\* leaves the bytes 128..191 as they are.
C7_SampleWithinScale ==
    AccelReturned =>
        \A i \in 1..3 :
            /\ 0 - Div128 * full_scale[mem[1]] <= ret[i]
            /\ ret[i] < Div128 * full_scale[mem[1]]

(* ------------------------------------------------------------------ *)
(* C8                                                                  *)
(* ------------------------------------------------------------------ *)

\* C8: after full scale was set to s, an acceleration read returns for each
\* axis, from its own data register, d(raw) * factor(s) / 128 with
\* d(raw) = raw - 128 when bit 6 of raw is set and raw otherwise: 0 for
\* raw 0, -factor/2 for raw 64, 49.21875 for raw 63 at 100G, and
\* (15.625, -15.625, 0) for (10, 118, 0) at 200G.
C8_DecodeCorrect ==
    (AccelReturned /\ lastFsSet # <<>>) =>
        LET s == lastFsSet[1]
            at(i) == raw[<<_ACC_X, _ACC_Y, _ACC_Z>>[i]]
        IN /\ ret = Expected(raw, s)
           /\ \A i \in 1..3 :
                /\ at(i) = 0 => ret[i] = 0
                /\ at(i) = 64 => 2 * ret[i] = 0 - Factor(s) * Div128
                /\ (at(i) = 63 /\ s = 0)
                      => ret[i] * 100000 = 4921875 * Div128
           /\ (raw = SampleOf(10, 118, 0) /\ s = 1)
                 => /\ ret[1] * 1000 = 15625 * Div128
                    /\ ret[2] * 1000 = (0 - 15625) * Div128
                    /\ ret[3] = 0

C8_Witness ==
    /\ AccelReturned /\ lastFsSet = <<1>>
    /\ raw = SampleOf(10, 118, 0)

(* ------------------------------------------------------------------ *)
(* C9                                                                  *)
(* ------------------------------------------------------------------ *)

\* C9: a setter whose read or write on the bus fails raises OSError after
\* that one failed transaction (nothing is sent again), and leaves the
\* registers and the cache as they were; the full-scale setter changes the
\* hardware bit and the cache together or not at all.
C9_NoPartialSuccess ==
    [][op' \in SetterOps
         => /\ res' = "OSError"
                 => /\ regs' = regs /\ mem' = mem
                    /\ Len(bus') \in {1, 2}
                    /\ ~bus'[Len(bus')][3]
                    /\ \A i \in 1..(Len(bus') - 1) : bus'[i][3]
                    /\ \A i, j \in DOMAIN bus' :
                          (bus'[i][1] = bus'[j][1]) => i = j
            /\ op' = "set_full_scale_selection"
                 => \/ /\ WroteDevice(bus') /\ res' = "ok"
                       /\ Bit(regs'[_CTRL_REG4], 4) = arg'[1]
                       /\ mem' = arg'
                    \/ /\ ~WroteDevice(bus') /\ res' # "ok"
                       /\ regs' = regs /\ mem' = mem]_vars

\* the write of the full-scale setter failed while the argument differed
\* from the cache
C9_Witness ==
    /\ op = "set_full_scale_selection" /\ res = "OSError"
    /\ bus = <<Rd(_CTRL_REG4, TRUE), Wr(_CTRL_REG4, FALSE)>>
    /\ mem # arg

(* ------------------------------------------------------------------ *)
(* C10                                                                 *)
(* ------------------------------------------------------------------ *)

\* C10: once the driver is constructed the cached full-scale value is 0 or
\* 1 in every state, so the scale lookup of an acceleration read is
\* defined and the read raises nothing but a transport error.
C10_CacheIsLegalCode ==
    phase = "ready" =>
        /\ mem \in {<<0>>, <<1>>}
        /\ op = "acceleration" => res \in {"ok", "OSError"}

\* a read decoded with the cache the constructor took from the mode field
C10_Witness ==
    /\ phase = "ready" /\ AccelReturned /\ lastFsSet = <<>>
    /\ Bit(regs[_CTRL_REG4], 4) = 0

====
